---------------------------- MODULE Spec2Model ----------------------------
(***************************************************************************)
(* A model of AGRO_shadow_incidence.py: the horizon-tracking shadow caster *)
(* (project_shadows / _cast_shadow), the index structure of gradient, and  *)
(* the part of main that composes the shadow mask into the statistics and  *)
(* the 8-bit shadow raster.                                                *)
(*                                                                         *)
(* Arithmetic.  The sun vector is drawn from small integer vectors; the    *)
(* caster never uses its norm: scaling sun_vector by k > 0 leaves          *)
(* inverse_sun_vector unchanged and scales every z_projection by k, so an  *)
(* integer vector stands for the unit vector of its direction.  Every real *)
(* quantity of the code is kept as an exact integer multiple of itself:    *)
(*   - inverse_sun_vector = -sun_vector / max_xy is the pair (num, den),   *)
(*     den = max_xy > 0;                                                   *)
(*   - normal_sun_vector is kept multiplied by h = sqrt(sx^2 + sy^2) > 0   *)
(*     (or by 1 in the vertical fallback), which makes it integral;        *)
(*   - z_projection is therefore kept multiplied by den * h > 0, which     *)
(*     leaves every comparison of two projections of one run unchanged.    *)
(***************************************************************************)
EXTENDS Integers, FiniteSets, Sequences, TLC

\* ------------------------------------------------------------------ bounds
MaxRows == 2
MaxCols == 3
MaxElev == 2
MaxSun == 2
MaxSunUp == 1
MaxSpacing == 1
\* bounds of the inputs of the interleaved specification
ParMaxDim == 2
ParMaxElev == 1
ParMaxSun == 1

\* z_previous = -1e20 (in the scaled unit of z_projection; below every
\* projection the bounded inputs can produce)
Z_PREVIOUS_INIT == -1000000

VARIABLES
    entry,        \* which function is called: "main", "gradient", "project_shadows"
    dem,          \* the elevation grid, [<<row, col>> -> elevation]
    rows, cols,   \* dem.shape
    sun_vector,   \* <<east, north, up>>
    dx, dy,       \* cell spacing handed to project_shadows
    pc,           \* position of the call
    raised,       \* the exception that ended the call, or "none"
    grad,         \* gradient's result
    in_sun,       \* project_shadows' mask, indexed <<col, row>> like z = dem.T
    rays,         \* per call of _cast_shadow: its locals n, z_previous and whether it returned
    visits,       \* history: every in-grid candidate of every ray
    out           \* what main derives from the mask

vars == <<entry, dem, rows, cols, sun_vector, dx, dy, pc, raised, grad,
          in_sun, rays, visits, out>>

\* ----------------------------------------------------------------- helpers
Abs(x) == IF x < 0 THEN -x ELSE x

Max(a, b) == IF a >= b THEN a ELSE b

Cells(r, c) == (0 .. r - 1) \X (0 .. c - 1)

\* Python's round() of the rational p / q, q > 0: to nearest, ties to even
RoundHalfEven(p, q) ==
    LET f == p \div q
        r == p % q
    IN  IF 2 * r < q THEN f
        ELSE IF 2 * r > q THEN f + 1
        ELSE IF f % 2 = 0 THEN f ELSE f + 1

\* ------------------------------------------------------------ sun vectors
\* faulty variant: the horizontal components lose their minus sign
NormalizeSunVector_SignError(sv) ==
    IF sv[1] * sv[1] + sv[2] * sv[2] = 0
    THEN <<0, 0, 1>>
    ELSE <<sv[1] * sv[3], sv[2] * sv[3], sv[1] * sv[1] + sv[2] * sv[2]>>

\* _normalize_sun_vector, times h = sqrt(sx^2 + sy^2) (times 1 in the fallback)
NormalizeSunVector(sv) ==
    IF sv[1] * sv[1] + sv[2] * sv[2] = 0
    THEN <<0, 0, 1>>
    ELSE <<-sv[1] * sv[3], -sv[2] * sv[3], sv[1] * sv[1] + sv[2] * sv[2]>>

\* _invert_sun_vector as numerators over the common denominator max_xy
InvertSunVector(sv) ==
    LET max_xy == Max(Abs(sv[1]), Abs(sv[2]))
    IN  IF max_xy = 0
        THEN [num |-> <<0, 0, -1>>, den |-> 1]
        ELSE [num |-> <<-sv[1], -sv[2], -sv[3]>>, den |-> max_xy]

\* faulty variant: the seed column of a sun in the west is index 0
StartCol_Zero(sv, c) == IF sv[1] < 0 THEN 0 ELSE c - 1

\* project_shadows, "Determine sun direction"
StartCol(sv, c) == IF sv[1] < 0 THEN 1 ELSE c - 1

StartRow(sv, r) == IF sv[2] < 0 THEN 1 ELSE r - 1


\* ------------------------------------------------------------ _cast_shadow
\* <<col_dx, row_dy>> = <<int(round(col + dx)), int(round(row + dy))>> with
\* dx = inverse_sun_vector[0] * n, dy = inverse_sun_vector[1] * n
Candidate(row, col, n, inv) ==
    <<RoundHalfEven(col * inv.den + inv.num[1] * n, inv.den),
      RoundHalfEven(row * inv.den + inv.num[2] * n, inv.den)>>

\* the break condition of the ray march
OutOfGrid(cand, r, c) ==
    (cand[1] < 0) \/ (cand[1] >= c) \/ (cand[2] < 0) \/ (cand[2] >= r)

\* np.dot(vector_to_origin, normal_sun_vector), times inv.den * h
ZProjection(n, dl, inv, nsv, zval) ==
      (inv.num[1] * n * dl) * nsv[1]
    + (inv.num[2] * n * dl) * nsv[2]
    + (zval * inv.den) * nsv[3]

\* faulty variant: a tie with the running maximum marks the candidate too
Shadowed_OrTie(z_projection, z_previous) == z_projection <= z_previous

\* the test that marks the candidate
Shadowed(z_projection, z_previous) == z_projection < z_previous

\* faulty variant: the other branch writes the cell back to illuminated
MarkCell_WritesBoth(mask, cand, z_projection, z_previous) ==
    [mask EXCEPT ![cand] = IF z_projection < z_previous THEN 0 ELSE 1]

\* in_sun[col_dx, row_dy] = 0 in the branch that marks
MarkCell(mask, cand, z_projection, z_previous) ==
    IF Shadowed(z_projection, z_previous)
    THEN [mask EXCEPT ![cand] = 0]
    ELSE mask

\* faulty variant: the reference is the previous candidate, not the running maximum
NextZPrevious_Always(z_projection, z_previous) == z_projection

\* z_previous = z_projection in the other branch
NextZPrevious(z_projection, z_previous) ==
    IF Shadowed(z_projection, z_previous) THEN z_previous ELSE z_projection

\* n += 1.  A ray that is still inside the grid after more steps than the
\* grid is wide or high has offsets 0 * n and no longer depends on n: from
\* NCap on, n is folded onto {NCap - 1, NCap}.
NCap == Max(MaxRows, MaxCols) + 1

NextN(n) == IF n < NCap THEN n + 1 ELSE NCap - 1

\* ---------------------------------------------------------- project_shadows
\* one call of _cast_shadow per column (Pass A, "Project West-East") and per
\* row (Pass B, "Project North-South")
RayIds(r, c) == ({"A"} \X (0 .. c - 1)) \cup ({"B"} \X (0 .. r - 1))

\* faulty variant: Pass A is handed the seed column of Pass B
SeedCol_AlwaysStart(ray, sv, c) == StartCol(sv, c)

\* the arguments row, col, dl of the call
SeedRow(ray, sv, r) == IF ray[1] = "A" THEN StartRow(sv, r) ELSE ray[2]

SeedCol(ray, sv, c) == IF ray[1] = "A" THEN ray[2] ELSE StartCol(sv, c)

RaySpacing(ray, lx, ly) == IF ray[1] = "A" THEN lx ELSE ly

\* the order of the calls in project_shadows
Before(r1, r2) ==
    \/ r1[1] = "A" /\ r2[1] = "B"
    \/ r1[1] = r2[1] /\ r1[2] < r2[2]

\* z = dem.T
Z(cand) == dem[<<cand[2], cand[1]>>]

\* in_sun = np.ones_like(z)
OnesLikeZ(r, c) == [x \in (0 .. c - 1) \X (0 .. r - 1) |-> 1]

\* in_sun.T
Transpose(mask, r, c) == [x \in Cells(r, c) |-> mask[<<x[2], x[1]>>]]

\* ------------------------------------------------------------------ gradient
\* grad[-1, :, :] = grad[-2, :, :] and grad[:, -1, :] = grad[:, -2, :] index
\* a row or column the array does not have: numpy raises IndexError
GradientIndexError(r, c) == r < 2 \/ c < 2

\* gradient's result before the division by area, every component doubled
\* (0.5 * length * (...) becomes length * (...)); the last row and column
\* are copies of the ones before them
Gradient(grid, r, c, length_x, length_y) ==
    LET inner(i, j) ==
            <<length_y * (grid[<<i, j>>] - grid[<<i, j + 1>>]
                          + grid[<<i + 1, j>>] - grid[<<i + 1, j + 1>>]),
              length_x * (grid[<<i, j>>] + grid[<<i, j + 1>>]
                          - grid[<<i + 1, j>>] - grid[<<i + 1, j + 1>>]),
              2 * length_x * length_y>>
        Src(k, m) == IF k = m - 1 THEN m - 2 ELSE k
    IN  [x \in Cells(r, c) |-> inner(Src(x[1], r), Src(x[2], c))]

\* ---------------------------------------------------------------------- main
\* (np.sum(shadow_mask == 0) / shadow_mask.size) * 100 as the fraction
\* <<numerator, denominator>>; a denominator of 0 is numpy's nan (0 / 0)
ShadowPct(mask) ==
    <<100 * Cardinality({x \in DOMAIN mask : mask[x] = 0}),
      Cardinality(DOMAIN mask)>>

\* 100 - shadow_pct
IlluminatedPct(shadow_pct) ==
    <<100 * shadow_pct[2] - shadow_pct[1], shadow_pct[2]>>

\* (1 - shadow_mask).astype(np.uint8)
Shadow8Bit(mask) == [x \in DOMAIN mask |-> (1 - mask[x]) % 256]

\* -------------------------------------------------------------------- inputs
\* flat terrain at every level, and terrain at level 0 with up to two raised
\* cells (every elevation profile of three cells, up to a common shift)
Grids(r, c) ==
    IF Cells(r, c) = {}
    THEN {[x \in {} |-> 0]}
    ELSE {[x \in Cells(r, c) |-> b] : b \in 0 .. MaxElev}
         \cup {[x \in Cells(r, c) |-> IF x = p THEN hp ELSE IF x = q THEN hq ELSE 0] :
                   p \in Cells(r, c), q \in Cells(r, c),
                   hp \in 0 .. MaxElev, hq \in 0 .. MaxElev}

SunVectors == (-MaxSun .. MaxSun) \X (-MaxSun .. MaxSun) \X (-1 .. MaxSunUp)

\* the inputs of the interleaved specification: every grid over two levels,
\* and the sun vectors with which every call of _cast_shadow returns
ParGrids(r, c) == [Cells(r, c) -> 0 .. ParMaxElev]

ParSunVectors ==
    {sv \in (-ParMaxSun .. ParMaxSun) \X (-ParMaxSun .. ParMaxSun) \X (-1 .. MaxSunUp) :
         sv[1] # 0 \/ sv[2] # 0}

\* a variable no statement has assigned yet
Unset == <<>>

Inputs(entries, maxr, maxc, grids, suns) ==
    /\ entry \in entries
    /\ rows \in 0 .. maxr
    /\ cols \in 0 .. maxc
    /\ dem \in IF grids = "two levels" THEN ParGrids(rows, cols) ELSE Grids(rows, cols)
    /\ sun_vector \in IF entry = "gradient" THEN {<<0, 0, 1>>} ELSE suns
    /\ dx \in 1 .. MaxSpacing
    /\ dy \in IF entry = "project_shadows" THEN 1 .. MaxSpacing ELSE {dx}
    /\ pc = CASE entry = "main" -> "read"
              [] entry = "gradient" -> "gradient"
              [] OTHER -> "shadows"
    /\ raised = "none"
    /\ grad = Unset
    /\ in_sun = Unset
    /\ rays = Unset
    /\ visits = {}
    /\ out = [shadow_mask |-> Unset]

Init ==
    Inputs({"main", "gradient", "project_shadows"}, MaxRows, MaxCols,
           "raised cells", SunVectors)

\* ------------------------------------------------------------------- actions
\* main: np.nanmin(dem) / np.nanmax(dem) of the DEM just read
MainReadDem ==
    /\ pc = "read"
    /\ IF rows * cols = 0
       THEN pc' = "raised" /\ raised' = "ValueError"
       ELSE pc' = "gradient" /\ raised' = raised
    /\ UNCHANGED <<entry, dem, rows, cols, sun_vector, dx, dy, grad, in_sun,
                   rays, visits, out>>

\* gradient(dem, res)
CallGradient ==
    /\ pc = "gradient"
    /\ IF GradientIndexError(rows, cols)
       THEN pc' = "raised" /\ raised' = "IndexError" /\ grad' = grad
       ELSE /\ pc' = IF entry = "main" THEN "shadows" ELSE "done"
            /\ raised' = raised
            /\ grad' = Gradient(dem, rows, cols, dx, dx)
    /\ UNCHANGED <<entry, dem, rows, cols, sun_vector, dx, dy, in_sun, rays,
                   visits, out>>

\* project_shadows up to in_sun = np.ones_like(z)
ProjectShadowsBegin ==
    /\ pc = "shadows"
    /\ in_sun' = OnesLikeZ(rows, cols)
    /\ rays' = [r \in RayIds(rows, cols) |->
                   [n |-> 0, z_previous |-> Z_PREVIOUS_INIT, returned |-> FALSE]]
    /\ pc' = "cast"
    /\ UNCHANGED <<entry, dem, rows, cols, sun_vector, dx, dy, raised, grad,
                   visits, out>>

\* one iteration of the while loop of the call _cast_shadow makes for ray
CastStep(ray) ==
    /\ pc = "cast"
    /\ ~rays[ray].returned
    /\ LET inv == InvertSunVector(sun_vector)
           nsv == NormalizeSunVector(sun_vector)
           n == rays[ray].n
           dl == RaySpacing(ray, dx, dy)
           cand == Candidate(SeedRow(ray, sun_vector, rows),
                             SeedCol(ray, sun_vector, cols), n, inv)
       IN  IF OutOfGrid(cand, rows, cols)
           THEN /\ rays' = [rays EXCEPT ![ray].returned = TRUE]
                /\ UNCHANGED <<in_sun, visits>>
           ELSE LET zp == ZProjection(n, dl, inv, nsv, Z(cand))
                    zprev == rays[ray].z_previous
                IN  /\ in_sun' = MarkCell(in_sun, cand, zp, zprev)
                    /\ rays' = [rays EXCEPT ![ray].z_previous = NextZPrevious(zp, zprev),
                                            ![ray].n = NextN(n)]
                    /\ visits' = visits \cup
                           {[ray |-> ray, n |-> n, cell |-> cand, zp |-> zp,
                             marked |-> Shadowed(zp, zprev)]}
    /\ UNCHANGED <<entry, dem, rows, cols, sun_vector, dx, dy, pc, raised,
                   grad, out>>

\* the for loops of project_shadows run the calls one after the other
SeqTurn(ray) ==
    /\ pc = "cast"
    /\ \A r \in DOMAIN rays : Before(r, ray) => rays[r].returned

\* return in_sun.T
ProjectShadowsReturn ==
    /\ pc = "cast"
    /\ \A r \in DOMAIN rays : rays[r].returned
    /\ out' = [shadow_mask |-> Transpose(in_sun, rows, cols)]
    /\ pc' = IF entry = "main" THEN "compose" ELSE "done"
    /\ UNCHANGED <<entry, dem, rows, cols, sun_vector, dx, dy, raised, grad,
                   in_sun, rays, visits>>

\* main: the statistics and the 8-bit shadow raster
MainCompose ==
    /\ pc = "compose"
    /\ LET mask == out.shadow_mask
       IN  out' = [shadow_mask |-> mask,
                   shadow_pct |-> ShadowPct(mask),
                   illuminated_pct |-> IlluminatedPct(ShadowPct(mask)),
                   n_illuminated |-> Cardinality({x \in DOMAIN mask : mask[x] = 1}),
                   shadow_8bit |-> Shadow8Bit(mask)]
    /\ pc' = "done"
    /\ UNCHANGED <<entry, dem, rows, cols, sun_vector, dx, dy, raised, grad,
                   in_sun, rays, visits>>

Next ==
    \/ MainReadDem
    \/ CallGradient
    \/ ProjectShadowsBegin
    \/ \E ray \in RayIds(rows, cols) : SeqTurn(ray) /\ CastStep(ray)
    \/ ProjectShadowsReturn
    \/ MainCompose

Spec == Init /\ [][Next]_vars

\* a direct call of project_shadows, which runs to completion: nothing in
\* the code blocks, yields or is preempted for good
InitCast ==
    Inputs({"project_shadows"}, MaxRows, MaxCols, "raised cells", SunVectors)

NextCast ==
    \/ ProjectShadowsBegin
    \/ \E ray \in RayIds(rows, cols) : SeqTurn(ray) /\ CastStep(ray)
    \/ ProjectShadowsReturn

FairSpec == InitCast /\ [][NextCast]_vars /\ WF_vars(NextCast)

\* ------------------------------------------------ rays in any interleaving
\* project_shadows with the calls of _cast_shadow of both passes started
\* together and their loop iterations interleaved in any order
InitPar ==
    Inputs({"project_shadows"}, ParMaxDim, ParMaxDim, "two levels", ParSunVectors)

NextPar ==
    \/ ProjectShadowsBegin
    \/ \E ray \in RayIds(rows, cols) : CastStep(ray)
    \/ ProjectShadowsReturn

SpecPar == InitPar /\ [][NextPar]_vars

\* the mask project_shadows computes when it runs the calls in its own order,
\* each to completion (defined when every ray leaves the grid)
RECURSIVE CastShadow(_, _, _, _)
CastShadow(mask, ray, n, z_previous) ==
    LET inv == InvertSunVector(sun_vector)
        nsv == NormalizeSunVector(sun_vector)
        cand == Candidate(SeedRow(ray, sun_vector, rows),
                          SeedCol(ray, sun_vector, cols), n, inv)
    IN  IF OutOfGrid(cand, rows, cols)
        THEN mask
        ELSE LET zp == ZProjection(n, RaySpacing(ray, dx, dy), inv, nsv, Z(cand))
             IN  CastShadow(MarkCell(mask, cand, zp, z_previous), ray, n + 1,
                            NextZPrevious(zp, z_previous))

RECURSIVE CastAll(_, _)
CastAll(mask, todo) ==
    IF todo = {}
    THEN mask
    ELSE LET first == CHOOSE r \in todo : \A q \in todo \ {r} : Before(r, q)
         IN  CastAll(CastShadow(mask, first, 0, Z_PREVIOUS_INIT), todo \ {first})

ProjectShadows == CastAll(OnesLikeZ(rows, cols), RayIds(rows, cols))

\* ---------------------------------------------------------------- vocabulary
\* in_sun and rays hold values
MaskDefined == entry # "gradient" /\ pc \in {"cast", "compose", "done"}

\* project_shadows has returned
Returned == entry # "gradient" /\ pc \in {"compose", "done"}

Flat == \A x \in DOMAIN dem : \A y \in DOMAIN dem : dem[x] = dem[y]

AllIlluminated == \A x \in DOMAIN in_sun : in_sun[x] = 1

Vertical == sun_vector[1] = 0 /\ sun_vector[2] = 0

\* s, a <<row, col>> of dem, is strictly higher than every other cell, and
\* the other cells are level
SpikeAt(s) ==
    /\ s \in DOMAIN dem
    /\ \A x \in DOMAIN dem \ {s} : dem[x] < dem[s]
    /\ \A x \in DOMAIN dem \ {s} : \A y \in DOMAIN dem \ {s} : dem[x] = dem[y]

\* the visits v (at the spike) and w (later, same ray) are such that the
\* spike's shadow reaches w:
\* (n_w - n_v) * dl * sun_up < (spike height - ground height) * max(|sun_east|, |sun_north|)
InSpikeShadow(v, w) ==
    LET spike == <<v.cell[2], v.cell[1]>>
        here == <<w.cell[2], w.cell[1]>>
    IN  (w.n - v.n) * RaySpacing(v.ray, dx, dy) * sun_vector[3]
            < (dem[spike] - dem[here]) * Max(Abs(sun_vector[1]), Abs(sun_vector[2]))

\* -------------------------------------------------------------------- claims

\* C1 (as stated): on a grid whose cells all have the same elevation the mask
\* is all-illuminated for every sun vector, a negative up-component included.
C1_FlatAllIlluminated == (MaskDefined /\ Flat) => AllIlluminated

\* C1 (amended): on a grid whose cells all have the same elevation the mask is
\* all-illuminated for every sun vector whose up-component is not negative.
C1_FlatAllIlluminatedSunNotBelow ==
    (MaskDefined /\ Flat /\ sun_vector[3] >= 0) => AllIlluminated

C1_Witness ==
    /\ pc = "done" /\ entry = "project_shadows"
    /\ Flat /\ sun_vector[3] >= 0 /\ ~Vertical
    /\ \E v \in visits : v.n >= 2
    /\ AllIlluminated

\* C2 (as stated): on a spike grid with a non-vertical sun above the horizon,
\* when project_shadows has returned, every cell a ray through the spike
\* reaches after the spike is shadowed, and the spike and every cell such a
\* ray reaches before it are illuminated.
C2_SpikeShadowsAllLater ==
    (Returned /\ ~Vertical /\ sun_vector[3] > 0) =>
        \A v \in visits : \A w \in visits :
            (SpikeAt(<<v.cell[2], v.cell[1]>>) /\ w.ray = v.ray) =>
                /\ w.n > v.n => in_sun[w.cell] = 0
                /\ w.n <= v.n => in_sun[w.cell] = 1

\* C2 (amended): ... every cell a ray through the spike reaches after the
\* spike and within the spike's shadow, (n - m) * dl * sun_up <
\* (spike height - ground height) * max(|sun_east|, |sun_north|), is shadowed,
\* and the spike and every cell such a ray reaches before it are illuminated.
C2_SpikeShadowsWithinReach ==
    (Returned /\ ~Vertical /\ sun_vector[3] > 0) =>
        \A v \in visits : \A w \in visits :
            (SpikeAt(<<v.cell[2], v.cell[1]>>) /\ w.ray = v.ray) =>
                /\ (w.n > v.n /\ InSpikeShadow(v, w)) => in_sun[w.cell] = 0
                /\ w.n <= v.n => in_sun[w.cell] = 1

C2_Witness ==
    /\ pc = "done" /\ ~Vertical /\ sun_vector[3] > 0
    /\ \E v \in visits : \E w \in visits : \E u \in visits :
           /\ SpikeAt(<<v.cell[2], v.cell[1]>>)
           /\ w.ray = v.ray /\ u.ray = v.ray
           /\ u.n < v.n /\ v.n < w.n
           /\ InSpikeShadow(v, w)
           /\ in_sun[w.cell] = 0 /\ in_sun[u.cell] = 1 /\ in_sun[v.cell] = 1

\* C3: in the 8-bit shadow raster main writes, a cell is 0 exactly when the
\* caster marked it shadowed (in_sun = 0) and 1 exactly when it left it
\* illuminated (in_sun = 1).
C3_RasterZeroIsShadow ==
    (entry = "main" /\ pc = "done") =>
        \A x \in Cells(rows, cols) :
            /\ out.shadow_8bit[x] = 0 <=> in_sun[<<x[2], x[1]>>] = 0
            /\ out.shadow_8bit[x] = 1 <=> in_sun[<<x[2], x[1]>>] = 1

\* C4: for every non-empty grid and every sun vector, the vertical one
\* included, every ray march leaves the grid and project_shadows terminates.
C4_ProjectShadowsTerminates ==
    (entry = "project_shadows" /\ rows > 0 /\ cols > 0) ~> (pc = "done")

\* C5: on a grid with zero rows or zero columns every core stage completes
\* without raising and returns an empty grid.
C5_DegenerateGridNoError ==
    (entry \in {"gradient", "project_shadows"} /\ (rows = 0 \/ cols = 0)) =>
        /\ raised = "none"
        /\ (entry = "project_shadows" /\ pc = "done") => DOMAIN out.shadow_mask = {}
        /\ (entry = "gradient" /\ pc = "done") => DOMAIN grad = {}

\* C6 (as stated): two different rays of one sweep never visit the same cell.
C6_RaysOfASweepDisjoint ==
    \A v \in visits : \A w \in visits :
        (v.ray[1] = w.ray[1] /\ v.ray # w.ray) => v.cell # w.cell

\* the sun's horizontal direction has no component along the seed edge of the
\* sweep, or is exactly diagonal
SweepAligned(pass) ==
    \/ Abs(sun_vector[1]) = Abs(sun_vector[2])
    \/ pass = "A" /\ sun_vector[1] = 0
    \/ pass = "B" /\ sun_vector[2] = 0

\* C6 (amended): two different rays of one sweep never visit the same cell
\* when the sun's horizontal direction is exactly diagonal or has no
\* component along the sweep's seed edge (east component 0 for Pass A, north
\* component 0 for Pass B).
C6_RaysOfAnAlignedSweepDisjoint ==
    \A v \in visits : \A w \in visits :
        (v.ray[1] = w.ray[1] /\ v.ray # w.ray /\ SweepAligned(v.ray[1])) =>
            v.cell # w.cell

C6_Witness ==
    /\ pc = "done" /\ ~Vertical
    /\ \E v \in visits : \E w \in visits :
           /\ v.ray[1] = w.ray[1] /\ v.ray # w.ray /\ SweepAligned(v.ray[1])
           /\ v.n >= 1 /\ w.n >= 1

\* C7: for any input grid, the empty one included, main reports a fraction
\* of shadowed cells and a fraction of illuminated cells that add up to 100,
\* the cells counted shadowed and those counted illuminated partitioning the
\* grid.
C7_FractionsAddUpTo100 ==
    (entry = "main" /\ pc \in {"done", "raised"}) =>
        /\ pc = "done"
        /\ out.shadow_pct[2] # 0
        /\ out.shadow_pct[1] + out.illuminated_pct[1] = 100 * out.shadow_pct[2]
        /\ out.shadow_pct[1] + 100 * out.n_illuminated = 100 * out.shadow_pct[2]

\* C8: within one ray, the candidate of step n is marked exactly when a
\* candidate of an earlier step of that ray has a strictly greater projected
\* height; the running maximum is the greatest projected height seen (a tie
\* is not marked and is the new reference); the seed is never marked by its
\* own ray.
C8_HorizonTracking ==
    MaskDefined =>
        /\ \A v \in visits :
               /\ v.marked <=> \E w \in visits :
                                   w.ray = v.ray /\ w.n < v.n /\ w.zp > v.zp
               /\ v.marked => in_sun[v.cell] = 0
               /\ v.n = 0 => ~v.marked
               /\ rays[v.ray].z_previous >= v.zp
        /\ \A r \in DOMAIN rays :
               \/ rays[r].z_previous = Z_PREVIOUS_INIT
               \/ \E v \in visits : v.ray = r /\ v.zp = rays[r].z_previous

C8_Witness ==
    /\ pc = "done"
    /\ \E u \in visits : \E v \in visits : \E w \in visits :
           /\ u.ray = v.ray /\ v.ray = w.ray
           /\ u.n < v.n /\ v.n < w.n
           /\ u.zp > w.zp /\ w.zp > v.zp
           /\ v.marked /\ w.marked
    /\ \E v \in visits : \E w \in visits :
           v.ray = w.ray /\ v.n < w.n /\ v.zp = w.zp /\ ~w.marked

\* C9: whatever the order in which the loop iterations of the rays of both
\* passes run, the mask project_shadows returns is the mask of the
\* sequential order.
C9_OrderIndependent ==
    pc = "done" =>
        /\ in_sun = ProjectShadows
        /\ out.shadow_mask = Transpose(ProjectShadows, rows, cols)

C9_Witness ==
    /\ pc = "done"
    /\ \E v \in visits : \E w \in visits :
           v.ray # w.ray /\ v.cell = w.cell /\ v.marked /\ ~w.marked

\* C10: a sweep whose seed index is 1 never visits index 0 on that axis
\* (Pass B and column 0 when the sun's east component is negative, Pass A
\* and row 0 when its north component is negative); when both are negative
\* the cell of row 0, column 0 is visited by no ray and is illuminated.
C10_SeedIndexOneSkipsIndexZero ==
    MaskDefined =>
        /\ \A v \in visits :
               /\ (v.ray[1] = "B" /\ sun_vector[1] < 0) => v.cell[1] # 0
               /\ (v.ray[1] = "A" /\ sun_vector[2] < 0) => v.cell[2] # 0
        /\ (sun_vector[1] < 0 /\ sun_vector[2] < 0 /\ rows > 0 /\ cols > 0) =>
               /\ \A v \in visits : v.cell # <<0, 0>>
               /\ in_sun[<<0, 0>>] = 1

C10_Witness ==
    /\ pc = "done"
    /\ sun_vector[1] < 0 /\ sun_vector[2] < 0
    /\ rows >= 2 /\ cols >= 2
    /\ \E x \in DOMAIN dem : dem[<<0, 0>>] < dem[x]
    /\ \E v \in visits : v.marked
    /\ in_sun[<<0, 0>>] = 1

=============================================================================
